---- MODULE Spec2Model ----
(***************************************************************************)
(* A model of the YouTube downloader: the URL cleaning shared by the web   *)
(* variant (src/app.py, Streamlit) and the desktop variant (src/func.py,   *)
(* Tkinter), and one download request of either variant from the click on  *)
(* "Download" to the message that ends it.                                 *)
(*                                                                         *)
(* A Python string is a sequence of one-character strings.                 *)
(***************************************************************************)
EXTENDS Integers, Sequences, FiniteSets, TLC

\* ------------------------------------------------------------------ bounds

\* Longest identifier (path segment or value of the v parameter) of an input URL.
MaxIdLen == 3

\* Largest declared and largest delivered size of a stream, in bytes.
MaxSize == 3

\* -------------------------------------------------------------- characters

S_youtube == <<"y", "o", "u", "t", "u", "b", "e">>
S_youtu_be == <<"y", "o", "u", "t", "u", ".", "b", "e">>
WATCH_PREFIX == <<"h", "t", "t", "p", "s", ":", "/", "/", "w", "w", "w", ".", "y", "o", "u", "t", "u", "b", "e", ".", "c", "o", "m", "/", "w", "a", "t", "c", "h", "?", "v", "=">>
S_https == <<"h", "t", "t", "p", "s", ":", "/", "/">>
S_www_youtube_com == <<"w", "w", "w", ".", "y", "o", "u", "t", "u", "b", "e", ".", "c", "o", "m">>
S_notyoutube_com == <<"n", "o", "t", "y", "o", "u", "t", "u", "b", "e", ".", "c", "o", "m">>
S_example_com == <<"e", "x", "a", "m", "p", "l", "e", ".", "c", "o", "m">>
S_bracket_host == <<"[", "y", "o", "u", "t", "u", "b", "e">>
S_watch == <<"/", "w", "a", "t", "c", "h">>
S_t_param == <<"t", "=", "7">>

\* Characters of a video identifier that the inputs draw from.
IdChars == {"x", "3", "7", "-", "_"}

\* The query-significant characters the inputs draw from.
QueryChars == {"&", "=", "+", "%"}

\* string.ascii_letters, and urllib.parse.scheme_chars.
Alpha ==
    {"a", "b", "c", "d", "e", "f", "g", "h", "i", "j", "k", "l", "m",
     "n", "o", "p", "q", "r", "s", "t", "u", "v", "w", "x", "y", "z",
     "A", "B", "C", "D", "E", "F", "G", "H", "I", "J", "K", "L", "M",
     "N", "O", "P", "Q", "R", "S", "T", "U", "V", "W", "X", "Y", "Z"}

Digits == {"0", "1", "2", "3", "4", "5", "6", "7", "8", "9"}

SchemeChars == Alpha \cup Digits \cup {"+", "-", "."}

\* The characters urllib.parse._hextobyte accepts in a %xx escape.
HexDigits == Digits \cup {"a", "b", "c", "d", "e", "f", "A", "B", "C", "D", "E", "F"}

\* urllib.parse._hextobyte followed by bytes.decode, on the escapes that the
\* characters of the inputs can spell: %33 is 3, %37 is 7, %73 is s, %77 is w.
\* Every result is an ASCII character that is no hex digit or is 3 or 7 again,
\* so the table is closed under repeated decoding.
HexToChar ==
    (<<"3", "3">> :> "3") @@ (<<"3", "7">> :> "7") @@
    (<<"7", "3">> :> "s") @@ (<<"7", "7">> :> "w")

\* --------------------------------------------------------- str operations

\* str.find(c, start), 1-based; 0 when c does not occur from start on.
Find(s, c, start) ==
    IF \E i \in start..Len(s) : s[i] = c
    THEN CHOOSE i \in start..Len(s) : s[i] = c /\ \A j \in start..(i - 1) : s[j] # c
    ELSE 0

\* c in s, for a character c.
HasChar(s, c) == \E i \in 1..Len(s) : s[i] = c

\* pat in s, for a string pat.
Contains(s, pat) ==
    \E i \in 1..(Len(s) - Len(pat) + 1) : SubSeq(s, i, i + Len(pat) - 1) = pat

\* s[i:] and s[:i-1], 1-based.
From(s, i) == SubSeq(s, i, Len(s))
Upto(s, i) == SubSeq(s, 1, i)

\* str.lstrip(c): s without its leading run of c.
lstrip(s, c) ==
    IF \A i \in 1..Len(s) : s[i] = c
    THEN <<>>
    ELSE From(s, CHOOSE i \in 1..Len(s) : s[i] # c /\ \A j \in 1..(i - 1) : s[j] = c)

\* str.split(sep): the pieces between the occurrences of the character sep.
RECURSIVE Split(_, _)
Split(s, sep) ==
    LET i == Find(s, sep, 1)
    IN  IF i = 0 THEN <<s>> ELSE <<Upto(s, i - 1)>> \o Split(From(s, i + 1), sep)

\* str.replace('+', ' ').
PlusToSpace(s) == [i \in 1..Len(s) |-> IF s[i] = "+" THEN " " ELSE s[i]]

\* ----------------------------------------------------------- urllib.parse

\* The exception urlsplit raises on a netloc with an unmatched bracket, as the
\* outcome of a call that returns a string otherwise: no Python string holds
\* this element.
ValueError == <<"ValueError">>

\* urlsplit's scheme test: the index of the ':' that ends a scheme, or 0.
SchemeEnd(url) ==
    LET i == Find(url, ":", 1)
    IN  IF i > 1 /\ url[1] \in Alpha /\ (\A k \in 1..(i - 1) : url[k] \in SchemeChars)
        THEN i
        ELSE 0

\* _splitnetloc(url, 2): the index of the first of / ? # after the leading //,
\* or one past the end.
NetlocEnd(u) ==
    IF \E i \in 3..Len(u) : u[i] \in {"/", "?", "#"}
    THEN CHOOSE i \in 3..Len(u) :
            u[i] \in {"/", "?", "#"} /\ \A j \in 3..(i - 1) : u[j] \notin {"/", "?", "#"}
    ELSE Len(u) + 1

\* urlparse(url): the netloc, path and query that clean_url reads, or raised
\* when urlsplit raises ValueError.
\* The inputs hold no ';', so urlparse's split of the path's parameters leaves
\* the path as urlsplit gives it; they start with a letter, so urlsplit's strip
\* of leading control characters and spaces removes nothing.
urlparse(url) ==
    LET se == SchemeEnd(url)
        u1 == IF se > 0 THEN From(url, se + 1) ELSE url
        hasNet == Len(u1) >= 2 /\ u1[1] = "/" /\ u1[2] = "/"
        delim == NetlocEnd(u1)
        netloc == IF hasNet THEN SubSeq(u1, 3, delim - 1) ELSE <<>>
        u2 == IF hasNet THEN From(u1, delim) ELSE u1
        h == Find(u2, "#", 1)
        u3 == IF h > 0 THEN Upto(u2, h - 1) ELSE u2
        q == Find(u3, "?", 1)
    IN  [raised |-> HasChar(netloc, "[") # HasChar(netloc, "]"),
         netloc |-> netloc,
         path |-> IF q > 0 THEN Upto(u3, q - 1) ELSE u3,
         query |-> IF q > 0 THEN From(u3, q + 1) ELSE <<>>]

\* unquote_to_bytes on one piece that followed a '%': a %xx escape is decoded,
\* anything else keeps its '%'.
UnquoteItem(item) ==
    IF Len(item) >= 2 /\ item[1] \in HexDigits /\ item[2] \in HexDigits
    THEN <<HexToChar[<<item[1], item[2]>>]>> \o From(item, 3)
    ELSE <<"%">> \o item

RECURSIVE UnquoteItems(_)
UnquoteItems(items) ==
    IF items = <<>> THEN <<>> ELSE UnquoteItem(Head(items)) \o UnquoteItems(Tail(items))

\* unquote(string).
unquote(string) ==
    IF ~HasChar(string, "%")
    THEN string
    ELSE LET bits == Split(string, "%") IN Head(bits) \o UnquoteItems(Tail(bits))

\* parse_qsl's loop body: the (name, value) pair of one field, or none.
ParseField(name_value) ==
    LET i == Find(name_value, "=", 1)
    IN  IF name_value = <<>> \/ i = 0 \/ i = Len(name_value)
        THEN <<>>
        ELSE << <<unquote(PlusToSpace(Upto(name_value, i - 1))),
                  unquote(PlusToSpace(From(name_value, i + 1)))>> >>

RECURSIVE ParseFields(_)
ParseFields(fields) ==
    IF fields = <<>> THEN <<>> ELSE ParseField(Head(fields)) \o ParseFields(Tail(fields))

\* parse_qsl(qs): the (name, value) pairs in order, blank values dropped.
parse_qsl(qs) == IF qs = <<>> THEN <<>> ELSE ParseFields(Split(qs, "&"))

\* 'v' in parse_qs(qs), and parse_qs(qs)['v'][0].
HasV(pairs) == \E i \in 1..Len(pairs) : pairs[i][1] = <<"v">>
FirstV(pairs) ==
    pairs[CHOOSE i \in 1..Len(pairs) :
            pairs[i][1] = <<"v">> /\ \A j \in 1..(i - 1) : pairs[j][1] # <<"v">>][2]

\* ---------------------------------------------------------------- clean_url

\* clean_url with the path used as it is (no lstrip('/')).
clean_url_no_lstrip(url) ==
    IF Contains(url, S_youtube) \/ Contains(url, S_youtu_be)
    THEN LET parsed_url == urlparse(url)
         IN  IF parsed_url.raised
             THEN ValueError
             ELSE LET query_params == parse_qsl(parsed_url.query)
                  IN  IF parsed_url.netloc = S_youtu_be
                      THEN WATCH_PREFIX \o parsed_url.path
                      ELSE IF HasV(query_params)
                           THEN WATCH_PREFIX \o FirstV(query_params)
                           ELSE url
    ELSE url

\* clean_url(url): the cleaned URL, or ValueError when urlparse raises.
clean_url(url) ==
    IF Contains(url, S_youtube) \/ Contains(url, S_youtu_be)
    THEN LET parsed_url == urlparse(url)
         IN  IF parsed_url.raised
             THEN ValueError
             ELSE LET query_params == parse_qsl(parsed_url.query)
                  IN  IF parsed_url.netloc = S_youtu_be
                      THEN WATCH_PREFIX \o lstrip(parsed_url.path, "/")
                      ELSE IF HasV(query_params)
                           THEN WATCH_PREFIX \o FirstV(query_params)
                           ELSE url
    ELSE url

\* ------------------------------------------------------------ URL cleaning

VARIABLES
    form,       \* the shape of the URL typed into the URL field
    vid,        \* the identifier the URL carries
    url,        \* url_entry.get() / st.text_input: the URL as typed
    cleaned,    \* clean_video_url = clean_url(url)
    recleaned,  \* clean_url(clean_video_url)
    upc         \* "input", "cleaned" or "recleaned"

url_vars == <<form, vid, url, cleaned, recleaned, upc>>

\* The shapes of the inputs: the shortened and the canonical form of the source
\* domain (the latter with the v parameter alone, followed or preceded by another
\* parameter, or missing), the shortened form without a scheme, another domain
\* whose name contains "youtube", another domain, and a host that opens a bracket.
Forms ==
    {"short", "short_extra", "canonical", "canonical_extra", "extra_canonical",
     "canonical_no_v", "bare_short", "other_substring", "other",
     "unmatched_bracket"}

\* All identifiers of the inputs: the strings over IdChars and QueryChars of up to
\* MaxIdLen characters.
Ids == UNION {[1..n -> IdChars \cup QueryChars] : n \in 0..MaxIdLen}

\* The input URL of a form and an identifier.
InputUrl(f, id) ==
    CASE f = "short" -> S_https \o S_youtu_be \o <<"/">> \o id
      [] f = "short_extra" -> S_https \o S_youtu_be \o <<"/">> \o id \o <<"?">> \o S_t_param
      [] f = "canonical" -> S_https \o S_www_youtube_com \o S_watch \o <<"?", "v", "=">> \o id
      [] f = "canonical_extra" ->
            S_https \o S_www_youtube_com \o S_watch \o <<"?", "v", "=">> \o id \o <<"&">> \o S_t_param
      [] f = "extra_canonical" ->
            S_https \o S_www_youtube_com \o S_watch \o <<"?">> \o S_t_param \o <<"&", "v", "=">> \o id
      [] f = "canonical_no_v" -> S_https \o S_www_youtube_com \o S_watch \o <<"?", "t", "=">> \o id
      [] f = "bare_short" -> S_youtu_be \o <<"/">> \o id
      [] f = "other_substring" -> S_https \o S_notyoutube_com \o S_watch \o <<"?", "v", "=">> \o id
      [] f = "other" -> S_https \o S_example_com \o S_watch \o <<"?", "v", "=">> \o id
      [] f = "unmatched_bracket" -> S_https \o S_bracket_host \o <<"/">> \o id

\* The state of the URL field and of its cleaning for an input URL u.
UrlTyped(f, id) ==
    /\ form = f
    /\ vid = id
    /\ url = InputUrl(f, id)
    /\ cleaned = <<>>
    /\ recleaned = <<>>
    /\ upc = "input"

\* ------------------------------------------------------- progress reports

\* A progress value is the exact quotient num / den of the callback's division.
\* Python computes it in floating point; rounding keeps the order of two
\* quotients with the same denominator and gives x / x = 1.0 exactly.
Quotient(n, d) == [num |-> n, den |-> d]
Leq(p, q) == p.num * q.den <= q.num * p.den
MinQ(p, q) == IF Leq(p, q) THEN p ELSE q

\* What a progress callback does: it raises, or it hands value to the sink.
Raises == [raised |-> TRUE, value |-> Quotient(0, 1)]
Reports(v) == [raised |-> FALSE, value |-> v]

\* download_video_stream.on_progress: progress_bar.progress(min(progress, 1.0)).
video_on_progress(size, remaining) ==
    LET current_bytes_downloaded == size - remaining
        progress == IF size > 0 THEN Quotient(current_bytes_downloaded, size)
                    ELSE Quotient(0, 1)
    IN  Reports(MinQ(progress, Quotient(1, 1)))

\* download_audio_stream.on_progress: the same computation, written again.
audio_on_progress(size, remaining) ==
    LET streamed == size - remaining
        progress == IF size > 0 THEN Quotient(streamed, size) ELSE Quotient(0, 1)
    IN  Reports(MinQ(progress, Quotient(1, 1)))

\* on_progress_callback of the desktop variant: bytes_downloaded / total_size * 100
\* with no test of total_size, so a total of 0 raises ZeroDivisionError.
on_progress_callback(size, remaining) ==
    LET bytes_downloaded == size - remaining
    IN  IF size = 0 THEN Raises ELSE Reports(Quotient(bytes_downloaded * 100, size))

\* The value that means 100% to the sink of a variant: 1.0 for st.progress,
\* 100 for the Progressbar with maximum=100.
Full(v) == IF v = "web" THEN Quotient(1, 1) ELSE Quotient(100, 1)

\* ------------------------------------------------------- a download request

VARIABLES
    variant,        \* "web" (src/app.py) or "desktop" (src/func.py)
    format_option,  \* "mp4", "mp3" or "text"
    pc,             \* where the request is
    stream,         \* "unset", "none" or "found": the stream or caption track asked for
    total_size,     \* stream.filesize, the declared size
    to_come,        \* bytes the source has still to deliver
    received,       \* bytes delivered so far
    bytes_remaining,\* the library's counter, handed to the progress callback
    reports,        \* the values the progress callback handed to its sink, in order
    files,          \* the files of this request that exist on disk
    temp_file_actual_size, \* os.path.getsize(file_path), once taken
    mp4_bytes,      \* the length of what was read back from file_path, once read
    result,         \* the triple a download_* function of the web variant returned
    outcome,        \* of the download_* function: "not_called", "returned", "raised"
    ui,             \* the messages and widgets shown to the user
    failure,        \* the step that failed, or "none"
    escaped         \* an exception left the request handler

req_vars ==
    <<variant, format_option, pc, stream, total_size, to_come, received,
      bytes_remaining, reports, files, temp_file_actual_size, mp4_bytes, result,
      outcome, ui, failure, escaped>>

\* Two requests of one running application: in the web variant two runs of the
\* script (one per session, each in its own thread), in the desktop variant two
\* clicks on Download, the second handled inside progress_bar.update() of the
\* first.
VARIABLES
    r_pc,           \* per request: "idle", "downloading", "in_update" or "done"
    r_size,         \* per request: stream.filesize
    r_remaining,    \* per request: the library's bytes_remaining
    r_to_come,      \* per request: bytes its source has still to deliver
    r_last,         \* per request: the value its callback handed over last
    sink,           \* per progress sink: the value it holds
    writers,        \* per progress sink: the requests whose callback wrote it
    call_stack      \* desktop: the handlers running on the Tk thread, innermost first

con_vars == <<r_pc, r_size, r_remaining, r_to_come, r_last, sink, writers, call_stack>>

vars == <<url_vars, req_vars, con_vars>>

\* An optional value: None, or one value.
None == <<>>
Some(x) == <<x>>

\* bool(b) of an optional bytes value holding a length: None and b'' are false.
Truthy(b) == b # None /\ b[1] > 0

\* The triple (file_bytes, file_name, mime) a download_* function returns; bytes
\* are modelled by their length.
Triple(b, n, m) == [bytes |-> b, name |-> n, mime |-> m]
NoneTriple == Triple(None, None, None)

\* The two requests, and the objects a progress callback can write to: the
\* st.progress element each run of app.py creates, and the module-level
\* progress_var of func.py.
Requests == {1, 2}
Sinks == {"progress_bar_1", "progress_bar_2", "progress_var"}

\* No request of the two has started.
ConIdle ==
    /\ r_pc = [r \in Requests |-> "idle"]
    /\ r_size = [r \in Requests |-> 0]
    /\ r_remaining = [r \in Requests |-> 0]
    /\ r_to_come = [r \in Requests |-> 0]
    /\ r_last = [r \in Requests |-> None]
    /\ sink = [s \in Sinks |-> None]
    /\ writers = [s \in Sinks |-> {}]
    /\ call_stack = <<>>

\* The state of a request before the click on Download.
Idle ==
    /\ ConIdle
    /\ pc = "start"
    /\ stream = "unset"
    /\ total_size = 0
    /\ to_come = 0
    /\ received = 0
    /\ bytes_remaining = 0
    /\ reports = <<>>
    /\ files = {}
    /\ temp_file_actual_size = None
    /\ mp4_bytes = None
    /\ result = NoneTriple
    /\ outcome = "not_called"
    /\ ui = {}
    /\ failure = "none"
    /\ escaped = FALSE

\* The URLs a request is made with: one that clean_url rewrites, one it raises on.
RequestForms == {"short", "unmatched_bracket"}

Init ==
    /\ variant \in {"web", "desktop"}
    /\ format_option \in {"mp4", "mp3", "text"}
    /\ \E f \in RequestForms : UrlTyped(f, <<"x">>)
    /\ Idle

\* The URL specification starts from any input URL; no request is made.
InitUrl ==
    /\ \E f \in Forms, id \in Ids : UrlTyped(f, id)
    /\ variant = "web"
    /\ format_option = "mp4"
    /\ Idle

\* The request ends with message m shown by the handler's own except clause.
EndsWith(m, why) ==
    /\ ui' = ui \cup {m}
    /\ failure' = why
    /\ pc' = "done"

\* The request's stream starts: size declared, content bytes to come, file f open.
StreamStarts(size, content, f) ==
    /\ stream' = "found"
    /\ total_size' = size
    /\ bytes_remaining' = size
    /\ to_come' = content
    /\ files' = files \cup {f}

\* A chunk of n bytes arrives: the library lowers its counter and calls back.
ChunkArrives(n) ==
    /\ to_come' = to_come - n
    /\ received' = received + n
    /\ bytes_remaining' = bytes_remaining - n

\* --- the handlers' first steps

\* The download block of app.py and start_download of func.py: clean_url(url).
\* In app.py the call is inside the block's try; in func.py nothing catches it.
StartDownload ==
    /\ pc = "start"
    /\ cleaned' = clean_url(url)
    /\ upc' = "cleaned"
    /\ IF cleaned' = ValueError
       THEN /\ failure' = "clean_url"
            /\ pc' = "done"
            /\ ui' = IF variant = "web" THEN ui \cup {"st.error: An error occurred"} ELSE ui
            /\ escaped' = (variant = "desktop")
       ELSE /\ pc' = "resolve"
            /\ UNCHANGED <<failure, ui, escaped>>
    /\ UNCHANGED <<con_vars, form, vid, url, recleaned, variant, format_option, stream, total_size,
                   to_come, received, bytes_remaining, reports, files,
                   temp_file_actual_size, mp4_bytes, result, outcome>>

\* YouTube(url), yt.title, yt.length: the resource is resolved, or the library
\* raises and the handler's except clause shows the error.
Resolve ==
    /\ pc = "resolve"
    /\ \/ /\ pc' = "select"
          /\ UNCHANGED <<ui, failure>>
       \/ EndsWith(IF variant = "web" THEN "st.error: An error occurred"
                   ELSE "showerror: An error occurred", "resolve")
    /\ UNCHANGED <<url_vars, con_vars, variant, format_option, stream, total_size, to_come,
                   received, bytes_remaining, reports, files, temp_file_actual_size,
                   mp4_bytes, result, outcome, escaped>>

\* --- download_video_stream (web)

\* if len(mp4_bytes) != temp_file_actual_size: the read-back lost or gained bytes.
read_back_differs_never(len_read, on_disk) == FALSE

read_back_differs(len_read, on_disk) == len_read # on_disk

\* if total_size > 0 and temp_file_actual_size != total_size: only a warning.
size_mismatch(size, on_disk) == size > 0 /\ on_disk # size

\* What download_video_stream returns with a partly filled triple on a bad read.
video_result_partial(bytes_read, corrupted) ==
    IF corrupted
    THEN Triple(bytes_read, None, None)
    ELSE IF Truthy(bytes_read)
         THEN Triple(bytes_read, Some("title.mp4"), Some("video/mp4"))
         ELSE NoneTriple

\* What download_video_stream returns once the file was read back: nothing after a
\* bad read, nothing for an empty payload (if mp4_bytes:), the triple otherwise.
video_result(bytes_read, corrupted) ==
    IF corrupted
    THEN NoneTriple
    ELSE IF Truthy(bytes_read)
         THEN Triple(bytes_read, Some("title.mp4"), Some("video/mp4"))
         ELSE NoneTriple

\* download_video_stream returns r: its finally clause removes the temporary file.
VideoReturns(r) ==
    /\ result' = r
    /\ outcome' = "returned"
    /\ files' = files \ {"file_path"}
    /\ pc' = "present"

\* except Exception in download_video_stream: the error is shown, nothing returned.
VideoExcept(why) ==
    /\ ui' = ui \cup {"st.error: error during video download or file handling"}
    /\ failure' = why
    /\ VideoReturns(NoneTriple)

\* yt.streams.get_highest_resolution(), the temporary file, total_size.
VideoSelect ==
    /\ pc = "select" /\ variant = "web" /\ format_option = "mp4"
    /\ \/ /\ stream' = "none"
          /\ result' = NoneTriple
          /\ outcome' = "returned"
          /\ pc' = "present"
          /\ UNCHANGED <<total_size, to_come, bytes_remaining, files>>
       \/ /\ \E size \in 0..MaxSize, content \in 0..MaxSize :
                StreamStarts(size, content, "file_path")
          /\ pc' = "v_stream"
          /\ UNCHANGED <<result, outcome>>
    /\ UNCHANGED <<url_vars, con_vars, variant, format_option, received, reports,
                   temp_file_actual_size, mp4_bytes, ui, failure, escaped>>

\* video_stream.stream_to_buffer(buffer): one chunk, then on_progress.
VideoChunk ==
    /\ pc = "v_stream" /\ to_come > 0
    /\ \E n \in 1..to_come :
          /\ ChunkArrives(n)
          /\ reports' = Append(reports, video_on_progress(total_size, bytes_remaining - n).value)
    /\ UNCHANGED <<url_vars, con_vars, variant, format_option, pc, stream, total_size, files,
                   temp_file_actual_size, mp4_bytes, result, outcome, ui, failure, escaped>>

\* stream_to_buffer raises (a network or I/O error) before the stream ends.
VideoStreamFail ==
    /\ pc = "v_stream"
    /\ VideoExcept("download")
    /\ UNCHANGED <<url_vars, con_vars, variant, format_option, stream, total_size, to_come, received,
                   bytes_remaining, reports, temp_file_actual_size, mp4_bytes, escaped>>

\* The buffer is written to the temporary file, or open/write raises.
VideoWrite ==
    /\ pc = "v_stream" /\ to_come = 0
    /\ \/ /\ pc' = "v_check"
          /\ UNCHANGED <<files, result, outcome, ui, failure>>
       \/ VideoExcept("write")
    /\ UNCHANGED <<url_vars, con_vars, variant, format_option, stream, total_size, to_come, received,
                   bytes_remaining, reports, temp_file_actual_size, mp4_bytes, escaped>>

\* os.path.exists, os.path.getsize and the read-back of the temporary file. The
\* file holds what was written; what a read returns is the file system's answer.
VideoReadBack ==
    /\ pc = "v_check"
    /\ \/ /\ ui' = ui \cup {"st.error: temporary file was not created"}
          /\ failure' = "vanished"
          /\ VideoReturns(NoneTriple)
          /\ UNCHANGED <<temp_file_actual_size, mp4_bytes>>
       \/ /\ temp_file_actual_size' = Some(received)
          /\ \E n \in 0..MaxSize : mp4_bytes' = Some(n)
          /\ pc' = "v_verify"
          /\ UNCHANGED <<files, result, outcome, ui, failure>>
       \/ /\ VideoExcept("read")
          /\ UNCHANGED <<temp_file_actual_size, mp4_bytes>>
    /\ UNCHANGED <<url_vars, con_vars, variant, format_option, stream, total_size, to_come, received,
                   bytes_remaining, reports, escaped>>

\* The two size checks, the finally clause and the return.
VideoVerify ==
    /\ pc = "v_verify"
    /\ LET corrupted == read_back_differs(mp4_bytes[1], temp_file_actual_size[1])
           warned == IF size_mismatch(total_size, temp_file_actual_size[1])
                     THEN {"st.warning: Filesize mismatch"} ELSE {}
       IN  /\ ui' = ui \cup warned \cup
                    (IF corrupted THEN {"st.error: CRITICAL READ ERROR"} ELSE {})
           /\ failure' = IF corrupted THEN "corrupted" ELSE failure
           /\ VideoReturns(video_result(mp4_bytes, corrupted))
    /\ UNCHANGED <<url_vars, con_vars, variant, format_option, stream, total_size, to_come, received,
                   bytes_remaining, reports, temp_file_actual_size, mp4_bytes, escaped>>

\* --- download_audio_stream (web)

\* The steps of the conversion to MP3 that can raise inside the try block.
TranscodeSteps == {"transcode_open", "transcode_write", "transcode_close", "transcode_read"}

\* except Exception in download_audio_stream: both files are removed from what
\* the failed step left on disk, and nothing is returned.
AudioExcept(why, on_disk) ==
    /\ ui' = ui \cup {"st.error: Error during MP3 conversion"}
    /\ failure' = why
    /\ files' = on_disk \ {"audio_path", "mp3_path"}
    /\ result' = NoneTriple
    /\ outcome' = "returned"
    /\ pc' = "present"

\* yt.streams.filter(only_audio=True).first(), the temporary file, total_size.
AudioSelect ==
    /\ pc = "select" /\ variant = "web" /\ format_option = "mp3"
    /\ \/ /\ stream' = "none"
          /\ result' = NoneTriple
          /\ outcome' = "returned"
          /\ pc' = "present"
          /\ UNCHANGED <<total_size, to_come, bytes_remaining, files>>
       \/ /\ \E size \in 0..MaxSize, content \in 0..MaxSize :
                StreamStarts(size, content, "audio_path")
          /\ pc' = "a_download"
          /\ UNCHANGED <<result, outcome>>
    /\ UNCHANGED <<url_vars, con_vars, variant, format_option, received, reports,
                   temp_file_actual_size, mp4_bytes, ui, failure, escaped>>

\* audio_stream.download(filename=audio_path): one chunk, then on_progress.
AudioChunk ==
    /\ pc = "a_download" /\ to_come > 0
    /\ \E n \in 1..to_come :
          /\ ChunkArrives(n)
          /\ reports' = Append(reports, audio_on_progress(total_size, bytes_remaining - n).value)
    /\ UNCHANGED <<url_vars, con_vars, variant, format_option, pc, stream, total_size, files,
                   temp_file_actual_size, mp4_bytes, result, outcome, ui, failure, escaped>>

\* audio_stream.download raises. The call stands before the try block, so the
\* exception leaves download_audio_stream and reaches the download block's
\* except clause; nothing removes audio_path.
AudioDownloadFail ==
    /\ pc = "a_download"
    /\ outcome' = "raised"
    /\ EndsWith("st.error: An error occurred", "download")
    /\ UNCHANGED <<url_vars, con_vars, variant, format_option, stream, total_size, to_come, received,
                   bytes_remaining, reports, files, temp_file_actual_size, mp4_bytes,
                   result, escaped>>

\* AudioFileClip(audio_path), write_audiofile(mp3_path), close(): the MP3 is
\* written, or one of the three raises; a failed write may leave a partial MP3.
AudioConvert ==
    /\ pc = "a_download" /\ to_come = 0
    /\ \/ /\ files' = files \cup {"mp3_path"}
          /\ pc' = "a_read"
          /\ UNCHANGED <<result, outcome, ui, failure>>
       \/ AudioExcept("transcode_open", files)
       \/ \E partial \in SUBSET {"mp3_path"} : AudioExcept("transcode_write", files \cup partial)
       \/ AudioExcept("transcode_close", files \cup {"mp3_path"})
    /\ UNCHANGED <<url_vars, con_vars, variant, format_option, stream, total_size, to_come, received,
                   bytes_remaining, reports, temp_file_actual_size, mp4_bytes, escaped>>

\* The MP3 is read into memory, both files are removed and the triple returned;
\* or the read raises.
AudioRead ==
    /\ pc = "a_read"
    /\ \/ /\ \E n \in 0..MaxSize :
                result' = Triple(Some(n), Some("title.mp3"), Some("audio/mpeg"))
          /\ files' = files \ {"audio_path", "mp3_path"}
          /\ outcome' = "returned"
          /\ pc' = "present"
          /\ UNCHANGED <<ui, failure>>
       \/ AudioExcept("transcode_read", files)
    /\ UNCHANGED <<url_vars, con_vars, variant, format_option, stream, total_size, to_come, received,
                   bytes_remaining, reports, temp_file_actual_size, mp4_bytes, escaped>>

\* --- download_caption_text (web)

\* download_caption_text returning an empty text when there is no caption track.
download_caption_text_empty(found, n) ==
    IF ~found
    THEN Triple(Some(0), Some("title.txt"), Some("text/plain"))
    ELSE Triple(Some(n), Some("title.txt"), Some("text/plain"))

\* download_caption_text: nothing when get_by_language_code('en') is None, else
\* the SRT text of n bytes.
download_caption_text(found, n) ==
    IF ~found
    THEN NoneTriple
    ELSE Triple(Some(n), Some("title.txt"), Some("text/plain"))

CaptionText ==
    /\ pc = "select" /\ variant = "web" /\ format_option = "text"
    /\ \E found \in BOOLEAN, n \in 0..MaxSize :
          /\ stream' = IF found THEN "found" ELSE "none"
          /\ result' = download_caption_text(found, n)
    /\ outcome' = "returned"
    /\ pc' = "present"
    /\ UNCHANGED <<url_vars, con_vars, variant, format_option, total_size, to_come, received,
                   bytes_remaining, reports, files, temp_file_actual_size, mp4_bytes,
                   ui, failure, escaped>>

\* --- the download block's presentation (web)

\* if file_bytes is not None and file_name is not None.
offers_download(r) == r.bytes # None /\ r.name # None

\* st.success and st.download_button, or the warning (captions) or error.
Present ==
    /\ pc = "present"
    /\ ui' = ui \cup
             (IF offers_download(result)
              THEN {"st.success: Download ready", "st.download_button"}
              ELSE IF format_option = "text"
                   THEN {"st.warning: No English captions available"}
                   ELSE {"st.error: Could not generate download"})
    /\ pc' = "done"
    /\ UNCHANGED <<url_vars, con_vars, variant, format_option, stream, total_size, to_come, received,
                   bytes_remaining, reports, files, temp_file_actual_size, mp4_bytes,
                   result, outcome, failure, escaped>>

\* --- download_video (desktop)

\* except Exception in download_video: the error is printed and shown; the files
\* the failed step left on disk stay.
DesktopExcept(why, on_disk) ==
    /\ files' = on_disk
    /\ EndsWith("showerror: An error occurred", why)

\* The 'mp4' branch up to the download: no stream, or the download starts and
\* the library opens the output file in save_path.
DesktopVideoSelect ==
    /\ pc = "select" /\ variant = "desktop" /\ format_option = "mp4"
    /\ \/ /\ stream' = "none"
          /\ ui' = ui \cup {"showerror: highest resolution stream is not available"}
          /\ pc' = "done"
          /\ UNCHANGED <<total_size, to_come, bytes_remaining, files>>
       \/ /\ \E size \in 0..MaxSize, content \in 0..MaxSize :
                StreamStarts(size, content, "video_file")
          /\ pc' = "d_download"
          /\ UNCHANGED ui
    /\ UNCHANGED <<url_vars, con_vars, variant, format_option, received, reports,
                   temp_file_actual_size, mp4_bytes, result, outcome, failure, escaped>>

\* The 'mp3' branch up to the download.
DesktopAudioSelect ==
    /\ pc = "select" /\ variant = "desktop" /\ format_option = "mp3"
    /\ \/ /\ stream' = "none"
          /\ ui' = ui \cup {"showerror: Audio stream is not available"}
          /\ pc' = "done"
          /\ UNCHANGED <<total_size, to_come, bytes_remaining, files>>
       \/ /\ \E size \in 0..MaxSize, content \in 0..MaxSize :
                StreamStarts(size, content, "audio_path")
          /\ pc' = "d_download"
          /\ UNCHANGED ui
    /\ UNCHANGED <<url_vars, con_vars, variant, format_option, received, reports,
                   temp_file_actual_size, mp4_bytes, result, outcome, failure, escaped>>

\* stream.download(output_path=save_path): one chunk, then on_progress_callback;
\* an exception of the callback ends the download in download_video's except.
DesktopChunk ==
    /\ pc = "d_download" /\ to_come > 0
    /\ \E n \in 1..to_come :
          LET called == on_progress_callback(total_size, bytes_remaining - n)
          IN  /\ ChunkArrives(n)
              /\ IF called.raised
                 THEN /\ EndsWith("showerror: An error occurred", "progress_callback")
                      /\ UNCHANGED reports
                 ELSE /\ reports' = Append(reports, called.value)
                      /\ UNCHANGED <<pc, ui, failure>>
    /\ UNCHANGED <<url_vars, con_vars, variant, format_option, stream, total_size, files,
                   temp_file_actual_size, mp4_bytes, result, outcome, escaped>>

\* stream.download raises (a network or I/O error): the partial file stays.
DesktopDownloadFail ==
    /\ pc = "d_download"
    /\ DesktopExcept("download", files)
    /\ UNCHANGED <<url_vars, con_vars, variant, format_option, stream, total_size, to_come, received,
                   bytes_remaining, reports, temp_file_actual_size, mp4_bytes, result,
                   outcome, escaped>>

\* The video is downloaded: "Download complete. Do you want to open the folder?"
DesktopVideoDone ==
    /\ pc = "d_download" /\ format_option = "mp4" /\ to_come = 0
    /\ ui' = ui \cup {"askyesno: Download complete"}
    /\ pc' = "done"
    /\ UNCHANGED <<url_vars, con_vars, variant, format_option, stream, total_size, to_come, received,
                   bytes_remaining, reports, files, temp_file_actual_size, mp4_bytes,
                   result, outcome, failure, escaped>>

\* AudioFileClip(audio_path).write_audiofile(mp3_path) and os.remove(audio_path):
\* the MP3 replaces the download, or the clip raises and nothing is removed.
DesktopConvert ==
    /\ pc = "d_download" /\ format_option = "mp3" /\ to_come = 0
    /\ \/ /\ files' = (files \cup {"mp3_path"}) \ {"audio_path"}
          /\ ui' = ui \cup {"askyesno: Download complete"}
          /\ pc' = "done"
          /\ UNCHANGED failure
       \/ DesktopExcept("transcode_open", files)
       \/ \E partial \in SUBSET {"mp3_path"} :
             DesktopExcept("transcode_write", files \cup partial)
    /\ UNCHANGED <<url_vars, con_vars, variant, format_option, stream, total_size, to_come, received,
                   bytes_remaining, reports, temp_file_actual_size, mp4_bytes, result,
                   outcome, escaped>>

\* The 'text' branch: the warning and return without a caption track, else the
\* captions are written to <title>.txt, or the write raises.
DesktopCaption ==
    /\ pc = "select" /\ variant = "desktop" /\ format_option = "text"
    /\ \/ /\ stream' = "none"
          /\ ui' = ui \cup {"showwarning: No English captions available"}
          /\ pc' = "done"
          /\ UNCHANGED <<files, failure>>
       \/ /\ stream' = "found"
          /\ files' = files \cup {"text_path"}
          /\ ui' = ui \cup {"askyesno: Download complete"}
          /\ pc' = "done"
          /\ UNCHANGED failure
       \/ /\ stream' = "found"
          /\ \E partial \in SUBSET {"text_path"} :
                DesktopExcept("caption_write", files \cup partial)
    /\ UNCHANGED <<url_vars, con_vars, variant, format_option, total_size, to_come, received,
                   bytes_remaining, reports, temp_file_actual_size, mp4_bytes, result,
                   outcome, escaped>>

\* --- the URL field alone

\* clean_video_url = clean_url(url), as start_download and the download block
\* compute it.
CleanUrl ==
    /\ upc = "input"
    /\ cleaned' = clean_url(url)
    /\ upc' = "cleaned"
    /\ UNCHANGED <<form, vid, url, recleaned, req_vars, con_vars>>

\* The cleaned URL is cleaned once more (it is pasted back into the URL field).
CleanAgain ==
    /\ upc = "cleaned"
    /\ cleaned # ValueError
    /\ recleaned' = clean_url(cleaned)
    /\ upc' = "recleaned"
    /\ UNCHANGED <<form, vid, url, cleaned, req_vars, con_vars>>

\* ------------------------------------------------- two concurrent requests

\* The sink the progress callback of request r writes: the progress_bar passed
\* to download_video_stream by its own run of the script (web), the global
\* progress_var bound to the one Progressbar (desktop).
SinkOf(v, r) ==
    IF v = "web"
    THEN (IF r = 1 THEN "progress_bar_1" ELSE "progress_bar_2")
    ELSE "progress_var"

\* The Tk thread can run the handler of a new click: no handler is running, or
\* the innermost one is inside progress_bar.update(), which handles pending events.
TkCanDispatch ==
    IF call_stack = <<>> THEN TRUE ELSE r_pc[Head(call_stack)] = "in_update"

\* Request r starts its download: its stream declares size and holds content.
TwoStart(r) ==
    /\ r_pc[r] = "idle"
    /\ variant = "desktop" => TkCanDispatch
    /\ \E size \in 0..MaxSize, content \in 0..MaxSize :
          /\ r_size' = [r_size EXCEPT ![r] = size]
          /\ r_remaining' = [r_remaining EXCEPT ![r] = size]
          /\ r_to_come' = [r_to_come EXCEPT ![r] = content]
    /\ r_pc' = [r_pc EXCEPT ![r] = "downloading"]
    /\ call_stack' = IF variant = "desktop" THEN <<r>> \o call_stack ELSE call_stack
    /\ UNCHANGED <<url_vars, req_vars, r_last, sink, writers>>

\* A chunk of request r arrives and its progress callback runs: on_progress of
\* app.py writes the run's progress_bar; on_progress_callback of func.py writes
\* progress_var and enters progress_bar.update(), or raises and ends the request.
TwoChunk(r) ==
    /\ r_pc[r] = "downloading" /\ r_to_come[r] > 0
    /\ variant = "desktop" => Head(call_stack) = r
    /\ \E n \in 1..r_to_come[r] :
          LET called == IF variant = "web"
                        THEN video_on_progress(r_size[r], r_remaining[r] - n)
                        ELSE on_progress_callback(r_size[r], r_remaining[r] - n)
          IN  /\ r_to_come' = [r_to_come EXCEPT ![r] = @ - n]
              /\ r_remaining' = [r_remaining EXCEPT ![r] = @ - n]
              /\ IF called.raised
                 THEN /\ r_pc' = [r_pc EXCEPT ![r] = "done"]
                      /\ call_stack' = Tail(call_stack)
                      /\ UNCHANGED <<r_last, sink, writers>>
                 ELSE /\ sink' = [sink EXCEPT ![SinkOf(variant, r)] = Some(called.value)]
                      /\ writers' = [writers EXCEPT ![SinkOf(variant, r)] = @ \cup {r}]
                      /\ r_last' = [r_last EXCEPT ![r] = Some(called.value)]
                      /\ r_pc' = [r_pc EXCEPT ![r] =
                                    IF variant = "desktop" THEN "in_update" ELSE "downloading"]
                      /\ UNCHANGED call_stack
    /\ UNCHANGED <<url_vars, req_vars, r_size>>

\* progress_bar.update() of request r returns: every handler it started has ended.
TwoUpdateReturns(r) ==
    /\ r_pc[r] = "in_update"
    /\ Head(call_stack) = r
    /\ r_pc' = [r_pc EXCEPT ![r] = "downloading"]
    /\ UNCHANGED <<url_vars, req_vars, r_size, r_remaining, r_to_come, r_last, sink,
                   writers, call_stack>>

\* The download of request r returns and the request ends.
TwoDone(r) ==
    /\ r_pc[r] = "downloading" /\ r_to_come[r] = 0
    /\ variant = "desktop" => Head(call_stack) = r
    /\ r_pc' = [r_pc EXCEPT ![r] = "done"]
    /\ call_stack' = IF variant = "desktop" THEN Tail(call_stack) ELSE call_stack
    /\ UNCHANGED <<url_vars, req_vars, r_size, r_remaining, r_to_come, r_last, sink, writers>>

\* ---------------------------------------------------------- specifications

\* Two requests of one application, of either variant.
InitTwo ==
    /\ variant \in {"web", "desktop"}
    /\ format_option = "mp4"
    /\ UrlTyped("short", <<"x">>)
    /\ Idle

NextTwo ==
    \E r \in Requests : TwoStart(r) \/ TwoChunk(r) \/ TwoUpdateReturns(r) \/ TwoDone(r)

SpecTwo == InitTwo /\ [][NextTwo]_vars


NextUrl == CleanUrl \/ CleanAgain

SpecUrl == InitUrl /\ [][NextUrl]_vars

Next ==
    \/ StartDownload
    \/ Resolve
    \/ VideoSelect
    \/ VideoChunk
    \/ VideoStreamFail
    \/ VideoWrite
    \/ VideoReadBack
    \/ VideoVerify
    \/ AudioSelect
    \/ AudioChunk
    \/ AudioDownloadFail
    \/ AudioConvert
    \/ AudioRead
    \/ CaptionText
    \/ Present
    \/ DesktopVideoSelect
    \/ DesktopAudioSelect
    \/ DesktopChunk
    \/ DesktopDownloadFail
    \/ DesktopVideoDone
    \/ DesktopConvert
    \/ DesktopCaption

Spec == Init /\ [][Next]_vars

\* ------------------------------------------------------------------ claims

\* A video identifier: a non-empty string over the identifier characters.
IsVideoId(id) == Len(id) >= 1 /\ \A i \in 1..Len(id) : id[i] \in IdChars

\* The forms of C2: the shortened form, and the canonical form with the v
\* parameter alone, followed by another parameter or preceded by one.
ResourceForms == {"short", "canonical", "canonical_extra", "extra_canonical"}

\* C1: URL normalization is idempotent: cleaning a cleaned URL again gives the
\* cleaned URL, for every input, also when the identifier holds & = + or %.
C1_CleanUrlIdempotent == upc = "recleaned" => recleaned = cleaned

\* C2: for every video identifier, the shortened form and the canonical form
\* (with or without another query parameter) are cleaned to the same string:
\* whatever form was typed, the result is the result for the shortened form.
C2_SameResourceSameResult ==
    (upc # "input" /\ IsVideoId(vid) /\ form \in ResourceForms)
        => cleaned = clean_url(InputUrl("short", vid))

\* C2's case: a canonical URL with a second parameter has been cleaned, to the
\* canonical URL of its identifier.
C2_Witness ==
    /\ upc = "cleaned"
    /\ form = "canonical_extra"
    /\ IsVideoId(vid) /\ Len(vid) >= 2
    /\ cleaned = WATCH_PREFIX \o vid

\* C3: clean_url returns its input unchanged and never raises for an input that
\* is neither form of the source domain (another domain, also one whose name
\* contains the domain's name; a host that is no host) and for a canonical URL
\* without the v parameter.
C3_OthersPassThrough ==
    (/\ upc # "input"
     /\ \/ form \in {"other_substring", "other", "unmatched_bracket"}
        \/ form = "canonical_no_v" /\ IsVideoId(vid))
        => cleaned = url

\* The download call has returned with the transfer complete: the source has no
\* more bytes, at least the expected ones came, and no step of the call failed.
DownloadComplete ==
    /\ stream = "found"
    /\ to_come = 0
    /\ received >= total_size
    /\ pc \notin {"v_stream", "a_download", "d_download"}
    /\ failure \notin {"download", "progress_callback"}

\* C4: for a transfer with a known positive expected size, the values the progress
\* callback reports never decrease, never exceed 100%, and the last one is 100%
\* when the download is complete, in the web and in the desktop variant.
C4_ProgressMonotoneTo100 ==
    (stream = "found" /\ format_option \in {"mp4", "mp3"} /\ total_size > 0)
        => /\ \A i \in 1..Len(reports) : Leq(reports[i], Full(variant))
           /\ \A i \in 1..(Len(reports) - 1) : Leq(reports[i], reports[i + 1])
           /\ DownloadComplete
                => /\ Len(reports) > 0
                   /\ Leq(Full(variant), reports[Len(reports)])
                   /\ Leq(reports[Len(reports)], Full(variant))

\* C5: with an expected size of zero, no call of the progress callback divides by
\* it: the callback does not raise and the transfer is not ended by it.
C5_ZeroTotalNoDivision ==
    (stream = "found" /\ total_size = 0) => failure # "progress_callback"

\* A video request of the web variant has ended after its read-back.
VideoReadBackDone ==
    /\ variant = "web" /\ format_option = "mp4"
    /\ pc = "done"
    /\ mp4_bytes # None

\* The video Artifact was returned and the download button offered; or neither.
VideoDelivered ==
    /\ result = Triple(mp4_bytes, Some("title.mp4"), Some("video/mp4"))
    /\ "st.download_button" \in ui
VideoNotDelivered ==
    /\ result = NoneTriple
    /\ "st.download_button" \notin ui

\* C6 as stated: if the bytes read back differ from the on-disk size the request
\* fails with the all-None triple and no download button, and a difference between
\* the declared and the on-disk size alone does not prevent delivery.
C6_AsStated ==
    VideoReadBackDone
        => /\ mp4_bytes # temp_file_actual_size => VideoNotDelivered
           /\ (mp4_bytes = temp_file_actual_size /\ temp_file_actual_size # Some(total_size))
                => VideoDelivered

\* C6 as amended: the same, the delivery being that of a non-empty payload; an
\* empty payload is never delivered.
C6_ReadBackMismatchFails ==
    VideoReadBackDone
        => /\ mp4_bytes # temp_file_actual_size => VideoNotDelivered
           /\ (mp4_bytes = temp_file_actual_size /\ temp_file_actual_size # Some(total_size)
                 /\ Truthy(mp4_bytes))
                => VideoDelivered
           /\ ~Truthy(mp4_bytes) => VideoNotDelivered

\* C6's case: the on-disk size differs from the declared one, the read-back
\* agrees with the disk, the warning was shown and the video was delivered.
C6_Witness ==
    /\ VideoReadBackDone
    /\ total_size > 0
    /\ temp_file_actual_size # Some(total_size)
    /\ mp4_bytes = temp_file_actual_size
    /\ "st.warning: Filesize mismatch" \in ui
    /\ VideoDelivered

\* C7: when a transfer of the web variant failed with an I/O error (in the
\* download, the write of the temporary file or the read-back), no file of the
\* request exists when the request reports its outcome.
C7_NoFileAfterIOFailure ==
    (variant = "web" /\ pc = "done" /\ failure \in {"download", "write", "read"})
        => files = {}

\* C8: when the transcode stage of an audio request failed, no Artifact is offered
\* and neither the downloaded source nor the MP3 exists when the request has
\* ended, in both variants.
C8_TranscodeFailureCleansUp ==
    (pc = "done" /\ failure \in TranscodeSteps)
        => /\ "st.download_button" \notin ui
           /\ "askyesno: Download complete" \notin ui
           /\ files \cap {"audio_path", "mp3_path"} = {}

\* The notice a variant shows when there is no caption track.
NoCaptionsNotice ==
    IF variant = "web"
    THEN "st.warning: No English captions available"
    ELSE "showwarning: No English captions available"

\* C9: a captions request without a caption track ends with the notice, with no
\* Artifact and no exception, has created no file, and is not followed by the
\* success path.
C9_NoCaptionTrack ==
    (format_option = "text" /\ stream = "none")
        => /\ files = {}
           /\ result = NoneTriple
           /\ outcome # "raised" /\ ~escaped /\ failure = "none"
           /\ ui \cap {"st.success: Download ready", "st.download_button",
                       "askyesno: Download complete"} = {}
           /\ pc = "done" => ui = {NoCaptionsNotice}

\* C9's case: a captions request without a caption track has ended.
C9_Witness ==
    /\ format_option = "text" /\ stream = "none"
    /\ pc = "done"
    /\ NoCaptionsNotice \in ui

\* The file name and the content type of a request kind.
FileNameOf(kind) ==
    CASE kind = "mp4" -> "title.mp4" [] kind = "mp3" -> "title.mp3" [] kind = "text" -> "title.txt"
MimeOf(kind) ==
    CASE kind = "mp4" -> "video/mp4" [] kind = "mp3" -> "audio/mpeg" [] kind = "text" -> "text/plain"

\* C10: a download_* function of the web variant that returns, returns the
\* all-None triple or a triple with payload, file name and the content type of the
\* request kind; and the download is offered exactly when an Artifact was returned.
C10_ArtifactOrNothing ==
    variant = "web"
        => /\ outcome = "returned"
                => \/ result = NoneTriple
                   \/ /\ result.bytes # None
                      /\ result.name = Some(FileNameOf(format_option))
                      /\ result.mime = Some(MimeOf(format_option))
           /\ pc = "done"
                => ("st.download_button" \in ui
                       <=> (outcome = "returned" /\ result # NoneTriple))

\* C10's case: an audio request has returned its Artifact and the download is
\* offered.
C10_Witness ==
    /\ variant = "web" /\ format_option = "mp3"
    /\ pc = "done"
    /\ outcome = "returned"
    /\ result.mime = Some("audio/mpeg")
    /\ "st.download_button" \in ui

\* The errors and notices a request can show to the user.
Notices ==
    {"st.error: An error occurred",
     "st.error: error during video download or file handling",
     "st.error: temporary file was not created",
     "st.error: CRITICAL READ ERROR",
     "st.error: Error during MP3 conversion",
     "st.error: Could not generate download",
     "st.warning: No English captions available",
     "showerror: An error occurred",
     "showerror: highest resolution stream is not available",
     "showerror: Audio stream is not available",
     "showwarning: No English captions available"}

\* C11: every request that fails, at whichever step (URL cleaning, resolution,
\* stream selection, transfer, progress callback, transcode, file write), ends
\* with an error or notice shown to the user, and no exception leaves the request
\* handler.
C11_EveryFailureShown ==
    (pc = "done" /\ (failure # "none" \/ stream = "none"))
        => /\ ~escaped
           /\ ui \cap Notices # {}

\* C12: two concurrent requests share no mutable progress state: no progress
\* sink is written by the callbacks of both, and what the sink of a request holds
\* is what that request's own callback reported last.
C12_NoSharedProgress ==
    /\ \A s \in Sinks : Cardinality(writers[s]) <= 1
    /\ \A r \in Requests : r_last[r] # None => sink[SinkOf(variant, r)] = r_last[r]

====
